---- MODULE Spec2Model ----
(***************************************************************************)
(* LureQuest: the loot roll, the progression rules and the player ledger   *)
(* (src/core/logic.py) and the command handlers that drive them            *)
(* (src/core/bot.py).                                                      *)
(*                                                                         *)
(* Four specifications share the state and the pure operators:             *)
(*   Spec      the handlers as the discord.py event loop runs them: the    *)
(*             synchronous body of a handler is one step, the awaited      *)
(*             response a second one;                                      *)
(*   SpecConc  the same handlers with one step per file-system call on     *)
(*             players.json, the steps of overlapping requests             *)
(*             interleaved in every order, and a request that may die      *)
(*             between two calls (no lock is taken anywhere in the code);  *)
(*   SpecFair  the steps of SpecConc without the kill, every request       *)
(*             scheduled fairly;                                           *)
(*   SpecLogic one call of a function of logic.py, or one /fish or         *)
(*             /leaderboard, on inputs drawn from the function's domain:   *)
(*             ledgers of up to MaxRecords records, levels at and around   *)
(*             the thresholds, draws at and around the cumulative sums,    *)
(*             catalogs other than CATCHES, rarity tables other than the   *)
(*             one of the module.                                          *)
(***************************************************************************)
EXTENDS Integers, Sequences, FiniteSets, TLC

(***************************************************************************)
(* Bounds of the model.                                                    *)
(***************************************************************************)
\* requests (slash-command interactions) handled in one behaviour of Spec
MaxReq == 2
\* requests that overlap in one behaviour of SpecConc
MaxConc == 2
\* records of a ledger that SpecLogic starts from
MaxRecords == 3

\* the requests of a behaviour: those of Spec or those of SpecConc, whichever
\* are more
Req == 1..(IF MaxReq > MaxConc THEN MaxReq ELSE MaxConc)

\* the player identifiers the requests come from
Users == {1, 2}

\* the absence of a value (Python's None)
None == "None"

(***************************************************************************)
(* Rarity table and loot catalog.                                          *)
(***************************************************************************)
Rarities ==
    <<"Trash", "Common", "Uncommon", "Rare", "Epic", "Supreme", "Mythical", "Legendary">>

\* A double near a multiple of 1/1000: the double nearest to k/1000, moved by
\* u steps of 2^-53.  Every literal of the table is such a double with u = 0;
\* every running sum and every sampled draw is one with u in -1..1 (for
\* each k of the tables the double nearest to k/1000 is a multiple of 2^-53,
\* hence a value random.random() can return).
Dbl(k, u) == [k |-> k, u |-> u]

\* a <= b on such doubles
DblLessEq(a, b) == a.k < b.k \/ (a.k = b.k /\ a.u <= b.u)

\* a < b on such doubles
DblLess(a, b) == a.k < b.k \/ (a.k = b.k /\ a.u < b.u)

\* The table in declaration order, probabilities in thousandths.
RARITY_PROBABILITIES ==
    << [rarity |-> "Trash",     prob |-> 239],
       [rarity |-> "Common",    prob |-> 250],
       [rarity |-> "Uncommon",  prob |-> 200],
       [rarity |-> "Rare",      prob |-> 100],
       [rarity |-> "Epic",      prob |-> 80],
       [rarity |-> "Supreme",   prob |-> 80],
       [rarity |-> "Mythical",  prob |-> 50],
       [rarity |-> "Legendary", prob |-> 1] >>

\* The rounding of the IEEE-754 additions of `cumulative_prob += prob`, in
\* steps of 2^-53 (the spacing of the doubles of [0.5, 1) and of the values
\* of random.random()): the running sums are 0.239, 0.489, 0.6890000000000001,
\* 0.789, 0.869, 0.949, 0.999, 1.0, each the double nearest to its decimal
\* except the third, which is one step above the double nearest to 0.689.
CumulativeUlp == <<0, 0, 1, 0, 0, 0, 0, 0>>

\* The module-level table as fishing() reads it: the entries in declaration
\* order and the rounding of their running sums.
Shipped == [probs |-> RARITY_PROBABILITIES, ulp |-> CumulativeUlp]

\* RARITY_PROBABILITIES with the probabilities replaced, rarity by rarity
WithProbs(p) == [i \in 1..Len(RARITY_PROBABILITIES) |->
                    [rarity |-> RARITY_PROBABILITIES[i].rarity, prob |-> p[i]]]

\* Two edits of the table.  With one thousandth moved from Trash to Legendary
\* the running sums are 0.238, 0.488, 0.688, 0.7879999999999999,
\* 0.8679999999999999, 0.9479999999999998, 0.9979999999999999,
\* 0.9999999999999999: the decimals add up to 1, the doubles end one step
\* short of 1.0.  With Legendary at 0.01 the sums end at 1.009.
LegendaryDoubled ==
    [probs |-> WithProbs(<<238, 250, 200, 100, 80, 80, 50, 2>>),
     ulp |-> <<0, 0, 0, -1, -1, -1, -1, -1>>]

LegendaryTenfold ==
    [probs |-> WithProbs(<<239, 250, 200, 100, 80, 80, 50, 10>>),
     ulp |-> <<0, 0, 1, 0, 0, 0, 0, 0>>]

RECURSIVE SumProbOf(_, _)
SumProbOf(probs, i) == IF i = 0 THEN 0 ELSE SumProbOf(probs, i - 1) + probs[i].prob

SumProb(i) == SumProbOf(RARITY_PROBABILITIES, i)

\* cumulative_prob after the i-th iteration of the walk over a table
cumulative_prob_of(table, i) == Dbl(SumProbOf(table.probs, i), table.ulp[i])

\* cumulative_prob after the i-th iteration of the walk
cumulative_prob(i) == cumulative_prob_of(Shipped, i)

\* total_prob = sum(RARITY_PROBABILITIES.values()), in thousandths
total_prob(table) == SumProbOf(table.probs, Len(table.probs))

\* assert abs(total_prob - 1.0) < 1e-6: the rounding of the sum is below
\* 1e-15, so the assertion passes exactly when the decimals add up to 1
AssertionError == "AssertionError"

total_prob_asserted(table) == total_prob(table) = 1000

\* The catalog: one template of each rarity (CATCHES holds ten of each, which
\* differ in name and description only).
CATCHES ==
    << [name |-> "Plastic Bag",       rarity |-> "Trash"],
       [name |-> "Bluegill",          rarity |-> "Common"],
       [name |-> "Rainbow Trout",     rarity |-> "Uncommon"],
       [name |-> "Golden Perch",      rarity |-> "Rare"],
       [name |-> "Giant Catfish",     rarity |-> "Epic"],
       [name |-> "Emperor Angelfish", rarity |-> "Supreme"],
       [name |-> "Kraken",            rarity |-> "Mythical"],
       [name |-> "Mystic Mermaid",    rarity |-> "Legendary"] >>

\* selected_rarity of the walk `if rand < cumulative_prob: ... break`: the
\* first rarity whose running sum exceeds rand; the name stays unbound
\* (UnboundLocalError at its first use) when no running sum does.
Unbound == "Unbound"

selected_rarity_of(table, rand) ==
    LET hits == {i \in 1..Len(table.probs) : DblLess(rand, cumulative_prob_of(table, i))}
    IN  IF hits = {} THEN Unbound
        ELSE table.probs[CHOOSE i \in hits : \A j \in hits : i <= j].rarity

selected_rarity(rand) == selected_rarity_of(Shipped, rand)

\* filtered_catches = [loot for loot in catches if loot.rarity == selected_rarity]
filtered_catches(catches, rarity) ==
    {i \in 1..Len(catches) : catches[i].rarity = rarity}

(***************************************************************************)
(* Loot roll.  random.randint(lo, hi) and round(random.uniform(lo, hi), 2) *)
(* are draws from the range; the model draws from the samples below.       *)
(* Weights are in hundredths of a kilogram.                                *)
(***************************************************************************)
\* the money ranges with the range of Trash starting at 0
ValueRangeFromZero ==
    [Trash |-> <<0, 9>>, Common |-> <<10, 50>>, Uncommon |-> <<51, 150>>,
     Rare |-> <<151, 500>>, Epic |-> <<501, 1500>>, Supreme |-> <<1501, 3000>>,
     Mythical |-> <<3001, 5000>>, Legendary |-> <<5001, 10000>>]

ValueRange ==
    [Trash |-> <<1, 9>>, Common |-> <<10, 50>>, Uncommon |-> <<51, 150>>,
     Rare |-> <<151, 500>>, Epic |-> <<501, 1500>>, Supreme |-> <<1501, 3000>>,
     Mythical |-> <<3001, 5000>>, Legendary |-> <<5001, 10000>>]

\* the xp ranges with the money range of Trash copied into its xp case
XpRangeTrashCopied ==
    [Trash |-> <<1, 9>>, Common |-> <<50, 100>>, Uncommon |-> <<101, 250>>,
     Rare |-> <<251, 500>>, Epic |-> <<501, 1000>>, Supreme |-> <<1001, 2000>>,
     Mythical |-> <<2001, 3500>>, Legendary |-> <<3501, 5000>>]

XpRange ==
    [Trash |-> <<0, 0>>, Common |-> <<50, 100>>, Uncommon |-> <<101, 250>>,
     Rare |-> <<251, 500>>, Epic |-> <<501, 1000>>, Supreme |-> <<1001, 2000>>,
     Mythical |-> <<2001, 3500>>, Legendary |-> <<3501, 5000>>]

WeightRange ==
    [Trash |-> <<10, 90>>, Common |-> <<100, 500>>, Uncommon |-> <<510, 1000>>,
     Rare |-> <<1010, 2000>>, Epic |-> <<2010, 3000>>, Supreme |-> <<3010, 4000>>,
     Mythical |-> <<4010, 5000>>, Legendary |-> <<5010, 6000>>]

IsRarity(rarity) == \E i \in 1..Len(Rarities) : Rarities[i] = rarity

\* value_loot_algo with `case "Trash" | _`: an unrecognised rarity rolls as
\* Trash does
value_loot_algo_as_trash(rarity) ==
    IF IsRarity(rarity) THEN ValueRange[rarity][1]..ValueRange[rarity][2]
    ELSE ValueRange["Trash"][1]..ValueRange["Trash"][2]

\* the outcomes of value_loot_algo(): a draw of the rarity's range, 0 for an
\* unrecognised rarity (case _)
value_loot_algo(rarity) ==
    IF IsRarity(rarity) THEN ValueRange[rarity][1]..ValueRange[rarity][2] ELSE {0}

\* the outcomes of xp_loot_algo()
xp_loot_algo(rarity) ==
    IF IsRarity(rarity) THEN XpRange[rarity][1]..XpRange[rarity][2] ELSE {0}

\* the outcomes of weight_algo(), in hundredths
weight_algo(rarity) ==
    IF IsRarity(rarity) THEN WeightRange[rarity][1]..WeightRange[rarity][2] ELSE {0}

\* Python's round() of the rational n/d (d > 0, n >= 0): to the nearest
\* integer, a tie to the even one.
Round(n, d) ==
    LET q == n \div d
        r == n % d
    IN  IF 2 * r < d THEN q
        ELSE IF 2 * r > d THEN q + 1
        ELSE IF q % 2 = 0 THEN q ELSE q + 1

\* catch_value = round((catch.xp_loot_algo() * catch_weight) / 2), the weight in
\* hundredths
catch_value_of(xp, weight) == Round(xp * weight, 200)

(***************************************************************************)
(* Progression rules.                                                      *)
(***************************************************************************)
\* level_check with `1000 < level` in the second case: a level on the
\* threshold matches no case before the next one
level_check_exclusive(level) ==
    IF 0 < level /\ level < 1000 THEN "Minnow"
    ELSE IF 1000 < level /\ level < 3000 THEN "Guppy"
    ELSE IF 3000 <= level /\ level < 5000 THEN "Pond"
    ELSE IF 5000 <= level /\ level < 10000 THEN "River"
    ELSE IF 10000 <= level /\ level < 15000 THEN "Lake"
    ELSE IF 15000 <= level /\ level < 20000 THEN "Stream"
    ELSE IF 20000 <= level /\ level < 30000 THEN "Bay"
    ELSE IF 30000 <= level /\ level < 40000 THEN "Ocean"
    ELSE IF 40000 <= level /\ level < 50000 THEN "Deep Sea"
    ELSE IF 50000 <= level /\ level < 70000 THEN "Trophy"
    ELSE IF 70000 <= level /\ level < 100000 THEN "Champion"
    ELSE IF level >= 100000 THEN "Legendary"
    ELSE "Unranked"

\* Player.level_check: the league of a level
level_check(level) ==
    IF 0 < level /\ level < 1000 THEN "Minnow"
    ELSE IF 1000 <= level /\ level < 3000 THEN "Guppy"
    ELSE IF 3000 <= level /\ level < 5000 THEN "Pond"
    ELSE IF 5000 <= level /\ level < 10000 THEN "River"
    ELSE IF 10000 <= level /\ level < 15000 THEN "Lake"
    ELSE IF 15000 <= level /\ level < 20000 THEN "Stream"
    ELSE IF 20000 <= level /\ level < 30000 THEN "Bay"
    ELSE IF 30000 <= level /\ level < 40000 THEN "Ocean"
    ELSE IF 40000 <= level /\ level < 50000 THEN "Deep Sea"
    ELSE IF 50000 <= level /\ level < 70000 THEN "Trophy"
    ELSE IF 70000 <= level /\ level < 100000 THEN "Champion"
    ELSE IF level >= 100000 THEN "Legendary"
    ELSE "Unranked"

(***************************************************************************)
(* players.json.  The document is written by write() calls at offset 0,    *)
(* after open(path, "w") has cut the file to nothing or before truncate()  *)
(* cuts what is left of the old text, so the file is: a complete JSON text *)
(* (head, the STATS array it holds) followed by junk bytes that are not    *)
(* JSON, or junk alone.  json.load accepts it only when it is a complete   *)
(* text and nothing else.                                                  *)
(***************************************************************************)
NoFile == [exists |-> FALSE, head |-> FALSE, STATS |-> <<>>, junk |-> 0]

\* the number of decimal digits of n >= 0
RECURSIVE Digits(_)
Digits(n) == IF n < 10 THEN 1 ELSE 1 + Digits(n \div 10)

\* the length of a league name
LeagueLen(league) ==
    CASE league = "" -> 0
      [] league \in {"Bay"} -> 3
      [] league \in {"Pond", "Lake"} -> 4
      [] league \in {"Guppy", "River", "Ocean"} -> 5
      [] league \in {"Minnow", "Stream", "Trophy"} -> 6
      [] league \in {"Unranked", "Deep Sea", "Champion"} -> 8
      [] league \in {"Legendary"} -> 9

RECURSIVE RecordsLen(_)
RecordsLen(stats) ==
    IF stats = <<>> THEN 0
    ELSE LET user == Head(stats)
         IN  99 + Digits(user.user_id) + Digits(user.money) + Digits(user.level)
                + LeagueLen(user.league) + RecordsLen(Tail(stats))

\* the length of the text json.dump({"STATS": stats}, file, indent=3) writes
DocLen(stats) ==
    IF stats = <<>> THEN 18 ELSE 23 + RecordsLen(stats) + 2 * (Len(stats) - 1)

\* the size of the file in bytes
FileSize(f) == (IF f.head THEN DocLen(f.STATS) ELSE 0) + f.junk

\* json.load(file) succeeds
Readable(f) == f.exists /\ f.head /\ f.junk = 0

\* open(PLAYERS_PATH, "w"): the file is created or cut to nothing
OpenTrunc(f) == [exists |-> TRUE, head |-> FALSE, STATS |-> <<>>, junk |-> 0]

\* the write() of a whole document at offset 0 (the flush of json.dump's text):
\* what the file held beyond the new text's length stays behind it
WriteAt0(f, stats) ==
    [exists |-> TRUE, head |-> TRUE, STATS |-> stats,
     junk |-> IF FileSize(f) > DocLen(stats) THEN FileSize(f) - DocLen(stats) ELSE 0]

\* file.truncate() at position n, the end of the text just written
Truncate(f, n) ==
    IF f.head /\ n >= DocLen(f.STATS)
    THEN [f EXCEPT !.junk = n - DocLen(f.STATS)]
    ELSE [f EXCEPT !.head = FALSE, !.STATS = <<>>, !.junk = n]

(***************************************************************************)
(* Player and the ledger operations.                                       *)
(***************************************************************************)
\* Player(user_id=user_id): Player.__init__ with its defaults
Player(user_id) == [user_id |-> user_id, money |-> 0, level |-> 0, league |-> ""]

\* the index of the first record of user_id in stats, 0 when there is none
IndexOf(stats, user_id) ==
    LET hits == {i \in 1..Len(stats) : stats[i].user_id = user_id}
    IN  IF hits = {} THEN 0 ELSE CHOOSE i \in hits : \A j \in hits : i <= j

\* load_from_leaderboard with the league not taken from the record
load_without_league(self, f) ==
    IF ~Readable(f) THEN self
    ELSE LET i == IndexOf(f.STATS, self.user_id)
         IN  IF i = 0 THEN self
             ELSE [self EXCEPT !.level = f.STATS[i].level, !.money = f.STATS[i].money]

\* Player.load_from_leaderboard: the player after the load.  A missing file
\* (FileNotFoundError) and a text that is not JSON (JSONDecodeError) are
\* printed and leave the player as it was.
load_from_leaderboard(self, f) ==
    IF ~Readable(f) THEN self
    ELSE LET i == IndexOf(f.STATS, self.user_id)
         IN  IF i = 0 THEN self
             ELSE [self EXCEPT !.level = f.STATS[i].level,
                               !.money = f.STATS[i].money,
                               !.league = f.STATS[i].league]

\* the update of save_to_leaderboard with user_found never set: the new entry
\* is appended also when the user has a record
UpsertAppend(stats, self) == Append(stats, self)

\* save_to_leaderboard, the update of the loaded players_data["STATS"]: the
\* first record of the user is overwritten, a new entry appended when there
\* is none
Upsert(stats, self) ==
    LET i == IndexOf(stats, self.user_id)
    IN  IF i = 0 THEN Append(stats, self)
        ELSE [stats EXCEPT ![i] = [@ EXCEPT !.money = self.money,
                                            !.level = self.level,
                                            !.league = self.league]]

\* save_to_leaderboard without the creation of the missing file
SaveCreateSkipped(f) == f

\* save_to_leaderboard, `if not os.path.isfile(PLAYERS_PATH)`: an empty
\* leaderboard is written when the file does not exist
SaveCreate(f) == IF f.exists THEN f ELSE WriteAt0(OpenTrunc(f), <<>>)

\* Player.save_to_leaderboard as a whole: the file after it, and whether
\* json.load raised (the exception leaves the method)
save_to_leaderboard(self, f) ==
    LET g == SaveCreate(f)
    IN  IF ~Readable(g) THEN [file |-> g, raised |-> TRUE]
        ELSE [file |-> WriteAt0(OpenTrunc(g), Upsert(g.STATS, self)), raised |-> FALSE]

\* state.lower() on the state arguments the model passes
Lower(state) ==
    CASE state = "Money" -> "money"
      [] state = "LEVEL" -> "level"
      [] OTHER -> state

\* the loop of reset_fisher with a `break` in place of the `return None` of an
\* unknown state: the data is written back unchanged and True returned
ResetDataFallThrough(stats, player_tag, state) ==
    LET i == IndexOf(stats, player_tag)
    IN  IF i = 0 THEN [ok |-> FALSE, STATS |-> stats]
        ELSE IF Lower(state) = "money"
             THEN [ok |-> TRUE, STATS |-> [stats EXCEPT ![i].money = 0]]
        ELSE IF Lower(state) \in {"level", "levels"}
             THEN [ok |-> TRUE, STATS |-> [stats EXCEPT ![i].level = 0]]
        ELSE [ok |-> TRUE, STATS |-> stats]

\* the loop of reset_fisher with both fields of the record zeroed, whichever
\* state is given
ResetDataBoth(stats, player_tag, state) ==
    LET i == IndexOf(stats, player_tag)
    IN  IF i = 0 THEN [ok |-> FALSE, STATS |-> stats]
        ELSE IF Lower(state) \in {"money", "level", "levels"}
             THEN [ok |-> TRUE, STATS |-> [stats EXCEPT ![i].money = 0, ![i].level = 0]]
        ELSE [ok |-> FALSE, STATS |-> stats]

\* reset_fisher, the loop over players_data["STATS"]: the data after it, and
\* whether the function goes on to write it (ok) or returns None
ResetData(stats, player_tag, state) ==
    LET i == IndexOf(stats, player_tag)
    IN  IF i = 0 THEN [ok |-> FALSE, STATS |-> stats]
        ELSE IF Lower(state) = "money"
             THEN [ok |-> TRUE, STATS |-> [stats EXCEPT ![i].money = 0]]
        ELSE IF Lower(state) \in {"level", "levels"}
             THEN [ok |-> TRUE, STATS |-> [stats EXCEPT ![i].level = 0]]
        ELSE [ok |-> FALSE, STATS |-> stats]

\* the loop of delete_player with the last record removed (STATS.pop()) in
\* place of the record found
DeleteDataLast(stats, player_tag) ==
    LET i == IndexOf(stats, player_tag)
    IN  IF i = 0 THEN [ok |-> FALSE, STATS |-> stats]
        ELSE [ok |-> TRUE, STATS |-> SubSeq(stats, 1, Len(stats) - 1)]

\* delete_player, the loop: the player's record removed
DeleteData(stats, player_tag) ==
    LET i == IndexOf(stats, player_tag)
    IN  IF i = 0 THEN [ok |-> FALSE, STATS |-> stats]
        ELSE [ok |-> TRUE,
              STATS |-> [j \in 1..(Len(stats) - 1) |-> IF j < i THEN stats[j] ELSE stats[j + 1]]]

\* delete_all_players: players_data["STATS"] = []
DeleteAllData(stats) == [ok |-> TRUE, STATS |-> <<>>]

\* file.seek(0); json.dump(players_data, file, indent=3); file.truncate()
Rewrite(f, stats) == Truncate(WriteAt0(f, stats), DocLen(stats))

\* the body of an admin function with the file opened "w+": the text is gone
\* before the data is looked at
ReadModifyWriteTruncating(f, change) ==
    IF ~Readable(f) \/ ~change.ok THEN [file |-> OpenTrunc(f), result |-> None]
    ELSE [file |-> Rewrite(f, change.STATS), result |-> "True"]

\* The body of an admin function under `with open(PLAYERS_PATH, "r+")`, given
\* the change it makes to the loaded data: the file after it and its result,
\* "True" or None.  Every exception (no file, no JSON) is printed and gives
\* None.
ReadModifyWrite(f, change) ==
    IF ~Readable(f) \/ ~change.ok THEN [file |-> f, result |-> None]
    ELSE [file |-> Rewrite(f, change.STATS), result |-> "True"]

reset_fisher(player_tag, state, f) ==
    ReadModifyWrite(f, ResetData(f.STATS, player_tag, state))

delete_player(player_tag, f) ==
    ReadModifyWrite(f, DeleteData(f.STATS, player_tag))

delete_all_players(f) ==
    ReadModifyWrite(f, DeleteAllData(f.STATS))

(***************************************************************************)
(* The leaderboard.  A pair [user_id, value] of leaderboard_list is the    *)
(* tuple <<user_id, value>>.                                               *)
(***************************************************************************)
\* the pairs of the records, in the order of the ledger
RECURSIVE Pairs(_, _)
Pairs(stats, field) ==
    IF stats = <<>> THEN <<>>
    ELSE <<(<<Head(stats).user_id,
              IF field = "money" THEN Head(stats).money ELSE Head(stats).level>>)>>
           \o Pairs(Tail(stats), field)

\* x put into a list sorted by descending value before the pairs of equal
\* value: what sorting ascending and reversing the result does to ties
InsertBeforeEqual(sorted, x) ==
    LET before == {i \in 1..Len(sorted) : sorted[i][2] > x[2]}
        n == Cardinality(before)
    IN  SubSeq(sorted, 1, n) \o <<x>> \o SubSeq(sorted, n + 1, Len(sorted))

\* x put into a list sorted by descending value, behind the pairs of equal
\* value: list.sort is stable, with reverse=True too
InsertDesc(sorted, x) ==
    LET before == {i \in 1..Len(sorted) : sorted[i][2] >= x[2]}
        n == Cardinality(before)
    IN  SubSeq(sorted, 1, n) \o <<x>> \o SubSeq(sorted, n + 1, Len(sorted))

\* leaderboard_list.sort(key=lambda x: x[1], reverse=True)
RECURSIVE SortDesc(_)
SortDesc(list) ==
    IF list = <<>> THEN <<>>
    ELSE InsertDesc(SortDesc(SubSeq(list, 1, Len(list) - 1)), list[Len(list)])

\* sort_leaderboard(state): the list returned, or raised when open() or
\* json.load raises (nothing in the function or its caller catches it); the
\* list is empty for a state that is neither money nor level(s)
sort_leaderboard(state, f) ==
    IF ~Readable(f) THEN [raised |-> TRUE, list |-> <<>>]
    ELSE IF Lower(state) = "money"
         THEN [raised |-> FALSE, list |-> SortDesc(Pairs(f.STATS, "money"))]
    ELSE IF Lower(state) \in {"level", "levels"}
         THEN [raised |-> FALSE, list |-> SortDesc(Pairs(f.STATS, "level"))]
    ELSE [raised |-> FALSE, list |-> <<>>]

(***************************************************************************)
(* The draws the model makes.                                              *)
(***************************************************************************)
\* random.random(): 0.0, 0.239 and the largest double below 1.0, which select
\* Trash, Common and Legendary
RandSamples == {Dbl(0, 0), Dbl(239, 0), Dbl(1000, -1)}

\* random.randint(lo, hi): the two ends of the range
Ends(range) == {range[1], range[2]}

\* xp_loot_algo: the ends of the range, and 80 for Common
XpSamples(rarity) ==
    (Ends(XpRange[rarity]) \cup (IF rarity = "Common" THEN {80} ELSE {})) \cap xp_loot_algo(rarity)

\* value_loot_algo: the ends of the range
ValueSamples(rarity) == Ends(ValueRange[rarity]) \cap value_loot_algo(rarity)

\* weight_algo: one weight of the range whose double is exact (a multiple of
\* 0.25 kg), so that xp * weight / 2 is computed without rounding error
WeightSamples(rarity) ==
    {[Trash |-> 25, Common |-> 300, Uncommon |-> 750, Rare |-> 1500, Epic |-> 2500,
      Supreme |-> 3500, Mythical |-> 4500, Legendary |-> 6000][rarity]}
        \cap weight_algo(rarity)

\* the state arguments of /reset-fisher and /leaderboard
StateSamples == {"Money", "level", "xyz"}

(***************************************************************************)
(* /fish, lines 101-109 of bot.py: the catch, its three rolls and the       *)
(* rewards.                                                                *)
(***************************************************************************)
\* fishing(catches): the rarity of the Loot returned, None when no loot has the
\* selected rarity, Unbound when no rarity was selected
fishing(catches, rand) ==
    LET rarity == selected_rarity(rand)
    IN  IF rarity = Unbound THEN {Unbound}
        ELSE IF filtered_catches(catches, rarity) = {} THEN {None}
        ELSE {catches[i].rarity : i \in filtered_catches(catches, rarity)}

\* fishing(catches) with the module-level table as given: the assertion on
\* its total comes first, then the walk and the choice
fishing_with(table, catches, rand) ==
    LET rarity == selected_rarity_of(table, rand)
    IN  IF ~total_prob_asserted(table) THEN {AssertionError}
        ELSE IF rarity = Unbound THEN {Unbound}
        ELSE IF filtered_catches(catches, rarity) = {} THEN {None}
        ELSE {catches[i].rarity : i \in filtered_catches(catches, rarity)}

\* catch_weight = catch.weight_algo()
\* catch_value = round((catch.xp_loot_algo() * catch_weight) / 2)
\* catch_xp = catch.value_loot_algo()
Rolls(rarity) ==
    {[catch |-> rarity, catch_weight |-> w, xp_loot |-> xp,
      catch_value |-> catch_value_of(xp, w), catch_xp |-> v] :
        w \in WeightSamples(rarity), xp \in XpSamples(rarity), v \in ValueSamples(rarity)}

\* the draws of random.random() in SpecConc: Common and Legendary
ConcRand == RandSamples \ {Dbl(0, 0)}

\* the rolls of a request of SpecConc: the least value roll and the greatest
\* xp roll
ConcRolls(rarity) ==
    {roll \in Rolls(rarity) : /\ roll.catch_xp = ValueRange[rarity][1]
                              /\ roll.xp_loot = XpRange[rarity][2]}

\* the credits of fish() assigned in place of added
CreditAssigned(self, roll) ==
    [self EXCEPT !.level = roll.catch_xp,
                 !.money = roll.catch_value,
                 !.league = level_check(roll.catch_xp)]

\* player_instance.level += catch_xp; player_instance.money += catch_value;
\* player_instance.level_check()
Credit(self, roll) ==
    [self EXCEPT !.level = self.level + roll.catch_xp,
                 !.money = self.money + roll.catch_value,
                 !.league = level_check(self.level + roll.catch_xp)]

(***************************************************************************)
(* State.                                                                  *)
(***************************************************************************)
VARIABLES
    doc,    \* players.json
    boot,   \* players.json as it was when the bot started
    pc,     \* pc[r]: where request r is in its handler
    req     \* req[r]: the command of request r and the locals of its handler

vars == <<doc, boot, pc, req>>

\* a request that has not arrived
NoRequest ==
    [op |-> "", user_id |-> 0, state |-> "", catch |-> "", catch_weight |-> 0,
     xp_loot |-> 0, catch_value |-> 0, catch_xp |-> 0, player |-> Player(0),
     data |-> <<>>, result |-> "", leaderboard |-> <<>>,
     table |-> Shipped, rand |-> None]

\* players.json outlives the process: the bot starts with no file, or with the
\* file earlier runs left: after a /fish of user 1 (Common, 3.00 kg, xp roll
\* 80, value roll 10), after a further /fish of user 2 (Legendary, 60.00 kg, xp
\* roll 5000, value roll 10000), after /delete-all-fishers, or the empty file
\* of a run that was killed between open(PLAYERS_PATH, "w") and the write
BootCommon ==
    [catch |-> "Common", catch_weight |-> 300, xp_loot |-> 80,
     catch_value |-> catch_value_of(80, 300), catch_xp |-> 10]

BootLegendary ==
    [catch |-> "Legendary", catch_weight |-> 6000, xp_loot |-> 5000,
     catch_value |-> catch_value_of(5000, 6000), catch_xp |-> 10000]

BootDocs ==
    LET one == save_to_leaderboard(Credit(Player(1), BootCommon), NoFile).file
        two == save_to_leaderboard(Credit(Player(2), BootLegendary), one).file
    IN  {NoFile, one, two, delete_all_players(two).file, OpenTrunc(two)}

Init ==
    /\ doc \in BootDocs
    /\ boot = doc
    /\ pc = [r \in Req |-> "idle"]
    /\ req = [r \in Req |-> NoRequest]

\* requests are numbered in the order in which their handlers start
Arrives(r) == pc[r] = "idle" /\ \A q \in Req : q < r => pc[q] # "idle"

\* the locals of fish() after the catch and its rolls
FishLocals(user_id, roll) ==
    [NoRequest EXCEPT !.op = "fish",
                      !.user_id = user_id,
                      !.catch = roll.catch,
                      !.catch_weight = roll.catch_weight,
                      !.xp_loot = roll.xp_loot,
                      !.catch_value = roll.catch_value,
                      !.catch_xp = roll.catch_xp,
                      !.player = Player(user_id)]

\* fish() with no catch: fishing() raised UnboundLocalError, or returned None
\* and catch.weight_algo() raised AttributeError
FishNoCatch(user_id, catch) ==
    [NoRequest EXCEPT !.op = "fish", !.user_id = user_id, !.catch = catch]

(***************************************************************************)
(* Spec: the body of each handler is one step, the awaited response the    *)
(* next.                                                                   *)
(***************************************************************************)
\* fish() with fishing(catches) in place of fishing(CATCHES)
FishWith(r, catches) ==
    /\ Arrives(r)
    /\ \E user_id \in Users, rand \in RandSamples :
         \E catch \in fishing(catches, rand) :
           IF catch \in {Unbound, None}
           THEN /\ pc' = [pc EXCEPT ![r] = "raised"]
                /\ req' = [req EXCEPT ![r] = FishNoCatch(user_id, catch)]
                /\ doc' = doc
           ELSE \E roll \in Rolls(catch) :
                  LET self == Credit(load_from_leaderboard(Player(user_id), doc), roll)
                      saved == save_to_leaderboard(self, doc)
                  IN  /\ doc' = saved.file
                      /\ pc' = [pc EXCEPT ![r] = IF saved.raised THEN "raised" ELSE "await"]
                      /\ req' = [req EXCEPT ![r] =
                                    [FishLocals(user_id, roll) EXCEPT !.player = self]]
    /\ boot' = boot

\* fish(): catch = fishing(CATCHES)
Fish(r) == FishWith(r, CATCHES)

\* a handler that loads the player and shows it
Show(r, op) ==
    /\ Arrives(r)
    /\ \E user_id \in Users :
         req' = [req EXCEPT ![r] =
                    [NoRequest EXCEPT !.op = op,
                                      !.user_id = user_id,
                                      !.player = load_from_leaderboard(Player(user_id), doc)]]
    /\ pc' = [pc EXCEPT ![r] = "await"]
    /\ UNCHANGED <<doc, boot>>

\* levels()
Levels(r) == Show(r, "levels")

\* money()
Money(r) == Show(r, "money")

\* leaderboard(): sorted_leaderboard = sort_leaderboard(state); the list is
\* shown, or "Invalid filter" answered for a state that is neither money nor
\* level(s)
Leaderboard(r) ==
    /\ Arrives(r)
    /\ \E state \in StateSamples :
         LET sorted == sort_leaderboard(state, doc)
         IN  /\ req' = [req EXCEPT ![r] = [NoRequest EXCEPT !.op = "leaderboard",
                                                            !.state = state,
                                                            !.leaderboard = sorted.list]]
             /\ pc' = [pc EXCEPT ![r] = IF sorted.raised THEN "raised" ELSE "await"]
    /\ UNCHANGED <<doc, boot>>

\* reset_player_stats(): result = reset_fisher(int(player_tag), state)
ResetPlayerStats(r) ==
    /\ Arrives(r)
    /\ \E player_tag \in Users, state \in StateSamples :
         LET done == reset_fisher(player_tag, state, doc)
         IN  /\ doc' = done.file
             /\ req' = [req EXCEPT ![r] = [NoRequest EXCEPT !.op = "reset-fisher",
                                                            !.user_id = player_tag,
                                                            !.state = state,
                                                            !.result = done.result]]
    /\ pc' = [pc EXCEPT ![r] = "await"]
    /\ boot' = boot

\* delete_player_command(): result = delete_player(int(player_tag))
DeletePlayerCommand(r) ==
    /\ Arrives(r)
    /\ \E player_tag \in Users :
         LET done == delete_player(player_tag, doc)
         IN  /\ doc' = done.file
             /\ req' = [req EXCEPT ![r] = [NoRequest EXCEPT !.op = "delete-fisher",
                                                            !.user_id = player_tag,
                                                            !.result = done.result]]
    /\ pc' = [pc EXCEPT ![r] = "await"]
    /\ boot' = boot

\* delete_all_fishers(): result = delete_all_players()
DeleteAllFishers(r) ==
    /\ Arrives(r)
    /\ LET done == delete_all_players(doc)
       IN  /\ doc' = done.file
           /\ req' = [req EXCEPT ![r] = [NoRequest EXCEPT !.op = "delete-all-fishers",
                                                          !.result = done.result]]
    /\ pc' = [pc EXCEPT ![r] = "await"]
    /\ boot' = boot

\* the awaited send_message never resumes the handler
SendPending(r) ==
    /\ pc[r] = "await"
    /\ UNCHANGED <<doc, boot, pc, req>>

\* await interaction.response.send_message(...): the response is sent and the
\* handler returns
Send(r) ==
    /\ pc[r] = "await"
    /\ pc' = [pc EXCEPT ![r] = "done"]
    /\ UNCHANGED <<doc, boot, req>>

Next ==
    \E r \in 1..MaxReq :
        \/ Fish(r)
        \/ Levels(r)
        \/ Money(r)
        \/ Leaderboard(r)
        \/ ResetPlayerStats(r)
        \/ DeletePlayerCommand(r)
        \/ DeleteAllFishers(r)
        \/ Send(r)

Spec == Init /\ [][Next]_vars

(***************************************************************************)
(* SpecConc: one step per file-system call on players.json.  Nothing in    *)
(* the code orders the calls of two requests, so they interleave freely.   *)
(***************************************************************************)
\* fish(), lines 98-109: the catch and its rolls, which touch nothing shared,
\* then load_from_leaderboard reads the file and the rewards are added to
\* what it found
FishLoad(r) ==
    /\ Arrives(r)
    /\ \E user_id \in Users, rand \in ConcRand :
         \E catch \in fishing(CATCHES, rand) :
           IF catch \in {Unbound, None}
           THEN /\ pc' = [pc EXCEPT ![r] = "raised"]
                /\ req' = [req EXCEPT ![r] = FishNoCatch(user_id, catch)]
           ELSE \E roll \in ConcRolls(catch) :
                  /\ pc' = [pc EXCEPT ![r] = "isfile"]
                  /\ req' = [req EXCEPT ![r] =
                                [FishLocals(user_id, roll) EXCEPT !.player =
                                    Credit(load_from_leaderboard(Player(user_id), doc), roll)]]
    /\ UNCHANGED <<doc, boot>>

\* save_to_leaderboard, line 252: os.path.isfile(PLAYERS_PATH)
SaveIsFile(r) ==
    /\ pc[r] = "isfile"
    /\ pc' = [pc EXCEPT ![r] = IF doc.exists THEN "read" ELSE "create"]
    /\ UNCHANGED <<doc, boot, req>>

\* line 254: open(PLAYERS_PATH, "w")
SaveCreateOpen(r) ==
    /\ pc[r] = "create"
    /\ doc' = OpenTrunc(doc)
    /\ pc' = [pc EXCEPT ![r] = "create_write"]
    /\ UNCHANGED <<boot, req>>

\* line 255: the empty leaderboard is written as the file is closed
SaveCreateWrite(r) ==
    /\ pc[r] = "create_write"
    /\ doc' = WriteAt0(doc, <<>>)
    /\ pc' = [pc EXCEPT ![r] = "read"]
    /\ UNCHANGED <<boot, req>>

\* lines 258-259: players_data = json.load(file); a text that is not JSON
\* raises JSONDecodeError out of the handler
SaveRead(r) ==
    /\ pc[r] = "read"
    /\ IF Readable(doc)
       THEN /\ req' = [req EXCEPT ![r].data = doc.STATS]
            /\ pc' = [pc EXCEPT ![r] = "open"]
       ELSE /\ req' = req
            /\ pc' = [pc EXCEPT ![r] = "raised"]
    /\ UNCHANGED <<doc, boot>>

\* line 281: open(PLAYERS_PATH, "w")
SaveOpen(r) ==
    /\ pc[r] = "open"
    /\ doc' = OpenTrunc(doc)
    /\ pc' = [pc EXCEPT ![r] = "write"]
    /\ UNCHANGED <<boot, req>>

\* line 282: the updated leaderboard is written as the file is closed
SaveWrite(r) ==
    /\ pc[r] = "write"
    /\ doc' = WriteAt0(doc, Upsert(req[r].data, req[r].player))
    /\ req' = [req EXCEPT ![r].data = <<>>]
    /\ pc' = [pc EXCEPT ![r] = "await"]
    /\ boot' = boot

\* An admin function up to its write: the file is opened "r+" and loaded, the
\* change made to the loaded data.  It returns None when the file cannot be
\* loaded or the change is not made.
AdminRead(r, locals, change) ==
    IF ~Readable(doc) \/ ~change.ok
    THEN /\ req' = [req EXCEPT ![r] = [locals EXCEPT !.result = None]]
         /\ pc' = [pc EXCEPT ![r] = "await"]
    ELSE /\ req' = [req EXCEPT ![r] = [locals EXCEPT !.data = change.STATS]]
         /\ pc' = [pc EXCEPT ![r] = "rewrite"]

\* reset_fisher, lines 297-310
ResetRead(r) ==
    /\ Arrives(r)
    /\ \E player_tag \in Users, state \in StateSamples :
         AdminRead(r, [NoRequest EXCEPT !.op = "reset-fisher",
                                        !.user_id = player_tag,
                                        !.state = state],
                   ResetData(doc.STATS, player_tag, state))
    /\ UNCHANGED <<doc, boot>>

\* delete_player, lines 330-337
DeleteRead(r) ==
    /\ Arrives(r)
    /\ \E player_tag \in Users :
         AdminRead(r, [NoRequest EXCEPT !.op = "delete-fisher", !.user_id = player_tag],
                   DeleteData(doc.STATS, player_tag))
    /\ UNCHANGED <<doc, boot>>

\* delete_all_players, lines 354-356
DeleteAllRead(r) ==
    /\ Arrives(r)
    /\ AdminRead(r, [NoRequest EXCEPT !.op = "delete-all-fishers"], DeleteAllData(doc.STATS))
    /\ UNCHANGED <<doc, boot>>

\* file.seek(0); json.dump(players_data, file, indent=3): the text is written
\* over the start of the file when truncate() flushes it
RewriteWrite(r) ==
    /\ pc[r] = "rewrite"
    /\ doc' = WriteAt0(doc, req[r].data)
    /\ pc' = [pc EXCEPT ![r] = "truncate"]
    /\ UNCHANGED <<boot, req>>

\* file.truncate(): the file is cut at the end of the text written; the
\* function returns True
RewriteTruncate(r) ==
    /\ pc[r] = "truncate"
    /\ doc' = Truncate(doc, DocLen(req[r].data))
    /\ req' = [req EXCEPT ![r].data = <<>>, ![r].result = "True"]
    /\ pc' = [pc EXCEPT ![r] = "await"]
    /\ boot' = boot

\* the process is killed between open(path, "w") and the write, or between
\* the write and truncate()
Crash(r) ==
    /\ pc[r] \in {"create_write", "write", "truncate"}
    /\ pc' = [pc EXCEPT ![r] = "crashed"]
    /\ UNCHANGED <<doc, boot, req>>

NextConc ==
    \E r \in 1..MaxConc :
        \/ FishLoad(r)
        \/ SaveIsFile(r)
        \/ SaveCreateOpen(r)
        \/ SaveCreateWrite(r)
        \/ SaveRead(r)
        \/ SaveOpen(r)
        \/ SaveWrite(r)
        \/ Levels(r)
        \/ ResetRead(r)
        \/ DeleteRead(r)
        \/ DeleteAllRead(r)
        \/ RewriteWrite(r)
        \/ RewriteTruncate(r)
        \/ Crash(r)
        \/ Send(r)

SpecConc == Init /\ [][NextConc]_vars

\* SpecFair: the steps of SpecConc in a process that is not killed, each
\* request scheduled fairly.  A handler is a coroutine of the event loop: every
\* file-system call of its body returns, and the loop resumes an awaited
\* send_message once the response is sent.
RequestStep(r) ==
    \/ FishLoad(r)
    \/ SaveIsFile(r)
    \/ SaveCreateOpen(r)
    \/ SaveCreateWrite(r)
    \/ SaveRead(r)
    \/ SaveOpen(r)
    \/ SaveWrite(r)
    \/ Levels(r)
    \/ ResetRead(r)
    \/ DeleteRead(r)
    \/ DeleteAllRead(r)
    \/ RewriteWrite(r)
    \/ RewriteTruncate(r)
    \/ Send(r)

NextFair == \E r \in 1..MaxConc : RequestStep(r)

SpecFair ==
    Init /\ [][NextFair]_vars /\ \A r \in 1..MaxConc : WF_vars(RequestStep(r))

(***************************************************************************)
(* SpecLogic: one call on drawn inputs.                                    *)
(***************************************************************************)
\* the players of the ledgers drawn
LedgerUsers == 1..MaxRecords

\* the catches that made the records of the ledgers drawn: a Trash catch with
\* value roll 1 or 9 (money 0, level 1 or 9), a Common catch (money 120,
\* level 10)
LedgerRolls ==
    {[catch |-> "Trash", catch_weight |-> 25, xp_loot |-> 0,
      catch_value |-> catch_value_of(0, 25), catch_xp |-> v] : v \in ValueSamples("Trash")}
        \cup {BootCommon}

\* the ledgers drawn: up to MaxRecords records of different players, in any
\* order, several of them with the same money or the same level
LedgerSamples ==
    LET records == {Credit(Player(u), roll) : u \in LedgerUsers, roll \in LedgerRolls}
    IN  UNION {{stats \in [1..n -> records] :
                   \A i, j \in 1..n : stats[i].user_id = stats[j].user_id => i = j} :
               n \in 0..MaxRecords}

\* self.level before a call of level_check: each threshold, the levels next
\* to it, and a level below 0
LevelSamples ==
    LET thresholds == {0, 1, 1000, 3000, 5000, 10000, 15000, 20000, 30000, 40000,
                       50000, 70000, 100000}
    IN  UNION {{t - 1, t, t + 1} : t \in thresholds}

\* The catalogs passed to fishing(catches): CATCHES, CATCHES with no template
\* of the rarest rarity, and CATCHES with a loot whose rarity is none of the
\* eight
CatalogSamples ==
    {CATCHES,
     SubSeq(CATCHES, 1, Len(CATCHES) - 1),
     Append(CATCHES, [name |-> "Old Boot", rarity |-> "Junk"])}

\* the rarities of the loot rolled: the eight of the table and one that is
\* none of them
RollRarities == {Rarities[i] : i \in 1..Len(Rarities)} \cup {"Junk"}

\* the outcomes of a roll that are drawn: the two ends of the rarity's range,
\* every outcome when the rarity has no range
RollSamples(range, outcomes, rarity) ==
    IF IsRarity(rarity) THEN Ends(range[rarity]) \cap outcomes ELSE outcomes

InitLogic ==
    /\ doc \in {NoFile} \cup {WriteAt0(OpenTrunc(NoFile), stats) : stats \in LedgerSamples}
    /\ boot = doc
    /\ pc = [r \in Req |-> "idle"]
    /\ req = [r \in Req |-> NoRequest]

\* player.level_check() of a player whose level is the level drawn
LevelCheck(r) ==
    /\ Arrives(r)
    /\ \E user_id \in Users, level \in LevelSamples :
         req' = [req EXCEPT ![r] =
                    [NoRequest EXCEPT !.op = "level_check",
                                      !.user_id = user_id,
                                      !.player = [Player(user_id) EXCEPT
                                                     !.level = level,
                                                     !.league = level_check(level)]]]
    /\ pc' = [pc EXCEPT ![r] = "done"]
    /\ UNCHANGED <<doc, boot>>

\* fish() on a catalog drawn
FishCatalog(r) == \E catches \in CatalogSamples : FishWith(r, catches)

\* loot.value_loot_algo(), loot.xp_loot_algo() and loot.weight_algo() of a
\* Loot of the rarity drawn; each returns its roll
LootRoll(r) ==
    /\ Arrives(r)
    /\ \E rarity \in RollRarities :
         \E value \in RollSamples(ValueRange, value_loot_algo(rarity), rarity),
            xp_loot \in RollSamples(XpRange, xp_loot_algo(rarity), rarity),
            weight \in RollSamples(WeightRange, weight_algo(rarity), rarity) :
           req' = [req EXCEPT ![r] = [NoRequest EXCEPT !.op = "roll",
                                                      !.catch = rarity,
                                                      !.catch_xp = value,
                                                      !.xp_loot = xp_loot,
                                                      !.catch_weight = weight]]
    /\ pc' = [pc EXCEPT ![r] = "done"]
    /\ UNCHANGED <<doc, boot>>

\* The tables fishing() is called with: the one of the module and the two
\* edits of it
TableSamples == {Shipped, LegendaryDoubled, LegendaryTenfold}

\* random.random() of a call of fishing(): 0.0, every running sum of the
\* table below 1.0, the double one step below each running sum, and the
\* largest double below 1.0
DrawSamples(table) ==
    {d \in {Dbl(0, 0)} \cup
            UNION {{cumulative_prob_of(table, i),
                    Dbl(cumulative_prob_of(table, i).k, cumulative_prob_of(table, i).u - 1)} :
                        i \in 1..Len(table.probs)} \cup
            {Dbl(1000, -1)} :
        DblLess(d, Dbl(1000, 0))}

\* fishing(CATCHES) on a table and a draw; the call returns a Loot, or raises
Fishing(r) ==
    /\ Arrives(r)
    /\ \E table \in TableSamples :
         \E rand \in DrawSamples(table) :
           \E catch \in fishing_with(table, CATCHES, rand) :
             /\ req' = [req EXCEPT ![r] = [NoRequest EXCEPT !.op = "fishing",
                                                           !.table = table,
                                                           !.rand = rand,
                                                           !.catch = catch]]
             /\ pc' = [pc EXCEPT ![r] = IF catch \in {Unbound, AssertionError}
                                         THEN "raised" ELSE "done"]
    /\ UNCHANGED <<doc, boot>>

NextLogic ==
    \E r \in {1} :
        \/ LevelCheck(r)
        \/ LootRoll(r)
        \/ Fishing(r)
        \/ FishCatalog(r)
        \/ Leaderboard(r)
        \/ Send(r)

SpecLogic == InitLogic /\ [][NextLogic]_vars

(***************************************************************************)
(* What the claims speak of.                                               *)
(***************************************************************************)
\* the requests whose handler has started
Arrived == {r \in Req : pc[r] # "idle"}

\* the body of request r's handler runs in this step of Spec
Body(r) == pc[r] = "idle" /\ pc'[r] = "await"

\* the persisted record of player p: what a load of the file gives
Persisted(f, p) == load_from_leaderboard(Player(p), f)

\* player p has a record in the file
Present(f, p) == Readable(f) /\ IndexOf(f.STATS, p) # 0

RECURSIVE SumValue(_)
SumValue(S) ==
    IF S = {} THEN 0
    ELSE LET r == CHOOSE x \in S : TRUE IN req[r].catch_value + SumValue(S \ {r})

RECURSIVE SumXp(_)
SumXp(S) ==
    IF S = {} THEN 0
    ELSE LET r == CHOOSE x \in S : TRUE IN req[r].catch_xp + SumXp(S \ {r})

\* request r is between the read of the document and its write-back
InSection(r) ==
    pc[r] \in {"isfile", "create", "create_write", "read", "open", "write",
               "rewrite", "truncate"}

\* request r reads the document in this step of SpecConc
ReadStep(r) ==
    /\ pc'[r] # pc[r]
    /\ IF pc[r] = "idle" THEN pc'[r] # "raised" ELSE pc[r] = "read"

\* The ledger after request r's operation has run alone on file f.
Alone(r, f) ==
    CASE req[r].op = "fish" ->
           save_to_leaderboard(
               Credit(load_from_leaderboard(Player(req[r].user_id), f), req[r]), f).file
      [] req[r].op = "reset-fisher" -> reset_fisher(req[r].user_id, req[r].state, f).file
      [] req[r].op = "delete-fisher" -> delete_player(req[r].user_id, f).file
      [] req[r].op = "delete-all-fishers" -> delete_all_players(f).file
      [] OTHER -> f

C3_AllOrNothing ==
    [][\A r \in Req : ReadStep(r) => (~doc.exists \/ Readable(doc))]_vars

(***************************************************************************)
(* C4.  In every ledger state the league of every persisted record is the  *)
(* league level_check gives for the record's level.                        *)
(***************************************************************************)
C4_RankConsistent ==
    \A i \in 1..Len(doc.STATS) : doc.STATS[i].league = level_check(doc.STATS[i].level)

(***************************************************************************)
(* C5.  A successful /fish of player p adds the rolled experience value    *)
(* (the roll of xp_loot_algo) to p's persisted experience and              *)
(* round(experience value * weight / 2) to p's persisted money.            *)
(***************************************************************************)
C5_CatchCredits ==
    [][\A r \in Req :
          (Body(r) /\ req'[r].op = "fish")
          => LET p == req'[r].user_id
             IN  /\ Persisted(doc', p).level = Persisted(doc, p).level + req'[r].xp_loot
                 /\ Persisted(doc', p).money =
                        Persisted(doc, p).money
                            + catch_value_of(req'[r].xp_loot, req'[r].catch_weight)]_vars

(***************************************************************************)
(* C6.  In every ledger state, under every interleaving of /fish,          *)
(* /reset-fisher, /delete-fisher and /delete-all-fishers, no two records   *)
(* of the STATS array have the same user_id.                               *)
(***************************************************************************)
C6_UniqueUserId ==
    \A i, j \in 1..Len(doc.STATS) :
        doc.STATS[i].user_id = doc.STATS[j].user_id => i = j

\* two overlapping /fish of a player who already had a record have both
\* written the document, which holds a second player's record too
C6_Witness ==
    /\ Readable(doc) /\ Len(doc.STATS) = 2
    /\ \E a, b \in Req :
         /\ a # b
         /\ req[a].op = "fish" /\ req[b].op = "fish"
         /\ req[a].user_id = req[b].user_id
         /\ Present(boot, req[a].user_id)
         /\ pc[a] = "done" /\ pc[b] = "done"

(***************************************************************************)
(* C7.  A load of a player who has no record in the ledger, the document   *)
(* missing included, gives money 0, experience 0 and league "Unranked".    *)
(***************************************************************************)
C7_LoadDefault ==
    [][\A r \in Req :
          (Body(r) /\ req'[r].op \in {"levels", "money"} /\ ~Present(doc, req'[r].user_id))
          => /\ req'[r].player.money = 0
             /\ req'[r].player.level = 0
             /\ req'[r].player.league = "Unranked"]_vars

(***************************************************************************)
(* C8.  Round trip: the save_to_leaderboard of a /fish followed at once by *)
(* the load_from_leaderboard of a /levels or /money of the same player     *)
(* gives a player equal to the saved one in money, level and league.       *)
(***************************************************************************)
\* In Spec the bodies run in the order of the request numbers: request r + 1
\* is the one that follows request r.
C8_RoundTrip ==
    \A r \in Req :
        ( /\ r + 1 \in Req
          /\ req[r].op = "fish" /\ pc[r] \in {"await", "done"}
          /\ req[r + 1].op \in {"levels", "money"}
          /\ req[r + 1].user_id = req[r].user_id )
        => req[r + 1].player = req[r].player

\* a /fish that replaced the record of a player, whose league changed with
\* it, in a ledger of two players, then a /levels of that player
C8_Witness ==
    \E r \in Req :
        /\ r + 1 \in Req
        /\ req[r].op = "fish" /\ pc[r] \in {"await", "done"}
        /\ req[r + 1].op = "levels" /\ pc[r + 1] \in {"await", "done"}
        /\ req[r + 1].user_id = req[r].user_id
        /\ Present(boot, req[r].user_id)
        /\ Persisted(boot, req[r].user_id).league # req[r].player.league
        /\ Len(doc.STATS) = 2

(***************************************************************************)
(* C9.  reset_fisher reports two failures that can be told apart: the      *)
(* result for a player who is not in the ledger (state money) differs from *)
(* the result for a player who is in it and a state that is neither money  *)
(* nor level.                                                              *)
(***************************************************************************)
\* requests a and b are the last two that arrived; both are /reset-fisher, one of an absent player with state money, the other of a
\* present player with an unknown state (the ledger is what it was at both
\* calls: neither changed it)
C9_BothFailures(a, b) ==
    /\ Arrived = 1..(IF a > b THEN a ELSE b)
    /\ a - b \in {1, -1}
    /\ pc[a] \in {"await", "done"} /\ pc[b] \in {"await", "done"}
    /\ req[a].op = "reset-fisher" /\ req[b].op = "reset-fisher"
    /\ Lower(req[a].state) = "money" /\ ~Present(doc, req[a].user_id)
    /\ Lower(req[b].state) \notin {"money", "level", "levels"} /\ Present(doc, req[b].user_id)

C10_ResetLevel ==
    [][\A r \in Req :
          ( /\ Body(r) /\ req'[r].op = "reset-fisher"
            /\ Lower(req'[r].state) \in {"level", "levels"}
            /\ req'[r].result = "True" )
          => /\ Present(doc', req'[r].user_id)
             /\ Persisted(doc', req'[r].user_id).level = 0
             /\ Persisted(doc', req'[r].user_id).league = "Unranked"]_vars

(***************************************************************************)
(* C11.  delete_player of a player who has a record returns True, and the  *)
(* ledger it leaves has no record of the player (a load gives the default  *)
(* player) and every other record as it was, in the same order; of a       *)
(* player who has no record it returns None (the handler answers "Player   *)
(* not found") and the document is as it was.                              *)
(***************************************************************************)
\* stats without the records of player p
RECURSIVE Without(_, _)
Without(stats, p) ==
    IF stats = <<>> THEN <<>>
    ELSE IF Head(stats).user_id = p THEN Without(Tail(stats), p)
    ELSE <<Head(stats)>> \o Without(Tail(stats), p)

C11_DeleteOne ==
    [][\A r \in Req :
          (Body(r) /\ req'[r].op = "delete-fisher")
          => LET p == req'[r].user_id
             IN  IF Present(doc, p)
                 THEN /\ req'[r].result = "True"
                      /\ Readable(doc')
                      /\ ~Present(doc', p)
                      /\ Persisted(doc', p) = Player(p)
                      /\ doc'.STATS = Without(doc.STATS, p)
                 ELSE /\ req'[r].result = None
                      /\ doc' = doc]_vars

\* the first of two records was deleted, the other record is the ledger; a
\* second delete of the same player was answered with None
C11_Witness ==
    \E r \in Req :
        /\ r + 1 \in Req
        /\ req[r].op = "delete-fisher" /\ req[r].result = "True"
        /\ req[r + 1].op = "delete-fisher" /\ req[r + 1].result = None
        /\ req[r + 1].user_id = req[r].user_id
        /\ Len(boot.STATS) = 2 /\ boot.STATS[1].user_id = req[r].user_id
        /\ doc.STATS = <<boot.STATS[2]>>

(***************************************************************************)
(* C12.  delete_all_players is idempotent: from every ledger, the document *)
(* missing included, each of two calls in a row leaves a ledger with no    *)
(* record, and the second call returns True, not None.                     *)
(***************************************************************************)
C12_Idempotent ==
    [][\A r \in Req :
          (Body(r) /\ req'[r].op = "delete-all-fishers")
          => /\ \A p \in Users : ~Present(doc', p)
             /\ (r > 1 /\ req[r - 1].op = "delete-all-fishers")
                  => req'[r].result = "True"]_vars

(***************************************************************************)
(* C13.  A document that was never created is an empty collection: with no *)
(* players.json, delete_all_players returns True and sort_leaderboard of    *)
(* money or level returns the empty list, as they do on a document whose   *)
(* STATS array is empty.                                                   *)
(***************************************************************************)
\* the handler of request r starts in this step
Starts(r) == pc[r] = "idle" /\ pc'[r] # "idle"

C13_AbsentIsEmpty ==
    [][\A r \in Req :
          (Starts(r) /\ ~doc.exists)
          => /\ req'[r].op = "delete-all-fishers" => req'[r].result = "True"
             /\ ( /\ req'[r].op = "leaderboard"
                  /\ Lower(req'[r].state) \in {"money", "level", "levels"} )
                  => pc'[r] = "await" /\ req'[r].leaderboard = <<>>]_vars

(***************************************************************************)
(* C14.  sort_leaderboard of money or level returns one pair (user_id,     *)
(* value) for each record of the ledger, the values in descending order,   *)
(* and two records of equal value in the order they have in the ledger.    *)
(***************************************************************************)
\* the value of a record that the state argument names
ValueOf(user, state) == IF Lower(state) = "money" THEN user.money ELSE user.level

C14_Ranked ==
    [][\A r \in Req :
          ( /\ Starts(r) /\ req'[r].op = "leaderboard"
            /\ Lower(req'[r].state) \in {"money", "level", "levels"}
            /\ Readable(doc) )
          => LET list == req'[r].leaderboard
                 stats == doc.STATS
             IN  /\ Len(list) = Len(stats)
                 /\ \A i \in 1..Len(stats) :
                      \E k \in 1..Len(list) :
                          list[k] = <<stats[i].user_id, ValueOf(stats[i], req'[r].state)>>
                 /\ \A k, l \in 1..Len(list) :
                      k < l => /\ list[k][2] >= list[l][2]
                               /\ list[k][2] = list[l][2]
                                    => IndexOf(stats, list[k][1]) < IndexOf(stats, list[l][1])]_vars

\* a ledger of three records was ranked by money: the first record has less
\* than the two others, which have the same and keep their order
C14_Witness ==
    \E r \in Req :
        /\ req[r].op = "leaderboard" /\ pc[r] = "done"
        /\ Lower(req[r].state) = "money"
        /\ Len(doc.STATS) = 3
        /\ doc.STATS[1].money < doc.STATS[2].money
        /\ doc.STATS[2].money = doc.STATS[3].money
        /\ doc.STATS[2].user_id > doc.STATS[3].user_id
        /\ req[r].leaderboard = << <<doc.STATS[2].user_id, doc.STATS[2].money>>,
                                   <<doc.STATS[3].user_id, doc.STATS[3].money>>,
                                   <<doc.STATS[1].user_id, doc.STATS[1].money>> >>

(***************************************************************************)
(* C15.  level_check gives every integer level one league, the league of   *)
(* the threshold table: Unranked up to 0, Minnow from 1, Guppy from 1000,  *)
(* Pond from 3000, River from 5000, Lake from 10000, Stream from 15000,    *)
(* Bay from 20000, Ocean from 30000, Deep Sea from 40000, Trophy from      *)
(* 50000, Champion from 70000, Legendary from 100000, each up to the level *)
(* before the next threshold.                                              *)
(***************************************************************************)
C15_Table ==
    << <<1, "Minnow">>, <<1000, "Guppy">>, <<3000, "Pond">>, <<5000, "River">>,
       <<10000, "Lake">>, <<15000, "Stream">>, <<20000, "Bay">>, <<30000, "Ocean">>,
       <<40000, "Deep Sea">>, <<50000, "Trophy">>, <<70000, "Champion">>,
       <<100000, "Legendary">> >>

\* the league of the last threshold that the level has reached
C15_Rank(level) ==
    LET reached == {i \in 1..Len(C15_Table) : C15_Table[i][1] <= level}
    IN  IF reached = {} THEN "Unranked"
        ELSE C15_Table[CHOOSE i \in reached : \A j \in reached : j <= i][2]

C15_RankFor ==
    \A r \in Req :
        req[r].op = "level_check" => req[r].player.league = C15_Rank(req[r].player.level)

\* level_check was called on the threshold 1000 and gave Guppy
C15_Witness ==
    \E r \in Req :
        /\ req[r].op = "level_check" /\ pc[r] = "done"
        /\ req[r].player.level = 1000 /\ req[r].player.league = "Guppy"

(***************************************************************************)
(* C16.  fishing() always returns a rarity: whenever the table passes the  *)
(* check of its total, the call selects a rarity, and a draw that is not   *)
(* below the last running sum of the walk selects Legendary, the last      *)
(* rarity of the table.                                                    *)
(***************************************************************************)
C16_Fallback ==
    \A r \in Req :
        (req[r].op = "fishing" /\ total_prob_asserted(req[r].table))
        => /\ IsRarity(req[r].catch)
           /\ ~DblLess(req[r].rand,
                       cumulative_prob_of(req[r].table, Len(req[r].table.probs)))
                => req[r].catch = "Legendary"

(***************************************************************************)
(* C17.  When no loot of the catalog passed to fishing() has the rarity    *)
(* selected, /fish ends with the retry message ("No catch available.       *)
(* Please try again!") and not with an exception, and the document is not  *)
(* written.                                                                *)
(***************************************************************************)
C17_NoCatchAvailable ==
    [][\A r \in Req :
          (Starts(r) /\ req'[r].op = "fish" /\ req'[r].catch = None)
          => pc'[r] = "await" /\ doc' = doc]_vars

C19_StorageFailure ==
    [][\A r \in Req :
          (Starts(r) /\ doc.exists /\ ~Readable(doc))
          => IF req'[r].op \in {"reset-fisher", "delete-fisher", "delete-all-fishers"}
             THEN req'[r].result = None
             ELSE pc'[r] = "raised"]_vars

(***************************************************************************)
(* C20.  The persisted money and level of a player are never negative, and *)
(* from one complete document to the next they do not decrease while the   *)
(* player has a record, unless the step is one of reset_fisher,            *)
(* delete_player or delete_all_players: no step of a /fish lowers them.    *)
(***************************************************************************)
\* the step is a step of an admin function
AdminStep ==
    \E r \in Req :
        /\ pc'[r] # pc[r]
        /\ req'[r].op \in {"reset-fisher", "delete-fisher", "delete-all-fishers"}

C21_Table ==
    [Trash     |-> <<1, 9, 0, 0, 10, 90>>,
     Common    |-> <<10, 50, 50, 100, 100, 500>>,
     Uncommon  |-> <<51, 150, 101, 250, 510, 1000>>,
     Rare      |-> <<151, 500, 251, 500, 1010, 2000>>,
     Epic      |-> <<501, 1500, 501, 1000, 2010, 3000>>,
     Supreme   |-> <<1501, 3000, 1001, 2000, 3010, 4000>>,
     Mythical  |-> <<3001, 5000, 2001, 3500, 4010, 5000>>,
     Legendary |-> <<5001, 10000, 3501, 5000, 5010, 6000>>]

C21_InRange ==
    \A r \in Req :
        (req[r].op \in {"roll", "fish"} /\ IsRarity(req[r].catch))
        => LET row == C21_Table[req[r].catch]
           IN  /\ row[1] <= req[r].catch_xp /\ req[r].catch_xp <= row[2]
               /\ row[3] <= req[r].xp_loot /\ req[r].xp_loot <= row[4]
               /\ row[5] <= req[r].catch_weight /\ req[r].catch_weight <= row[6]
               /\ req[r].catch = "Trash" => req[r].xp_loot = 0 /\ req[r].catch_value = 0

\* a Legendary loot was rolled at the upper end of its three ranges
C21_Witness ==
    \E r \in Req :
        /\ req[r].op = "roll" /\ pc[r] = "done" /\ req[r].catch = "Legendary"
        /\ req[r].catch_xp = 10000 /\ req[r].xp_loot = 5000 /\ req[r].catch_weight = 6000
(***************************************************************************)
(* C22.  A rarity table whose probabilities do not add up to 1 within 1e-6 *)
(* is rejected when the bot starts: no call of fishing() is the place      *)
(* where the error is first raised.                                        *)
(***************************************************************************)
C22_RejectedAtStartup ==
    \A r \in Req :
        req[r].op = "fishing"
        => total_prob_asserted(req[r].table) /\ req[r].catch # AssertionError

(***************************************************************************)
(* C24.  With the table of the module, a draw equal to the running sum of  *)
(* a rarity selects the next rarity of the declaration order, a draw one   *)
(* step below it selects that rarity, the draw 0.0 selects Trash, and      *)
(* every rarity is selected by some draw.                                  *)
(***************************************************************************)
\* the running sums 0.239, 0.489, 0.6890000000000001, 0.789, 0.869, 0.949,
\* 0.999, 1.0
C24_Sums ==
    <<Dbl(239, 0), Dbl(489, 0), Dbl(689, 1), Dbl(789, 0), Dbl(869, 0), Dbl(949, 0),
      Dbl(999, 0), Dbl(1000, 0)>>

C24_FirstAbove ==
    \A r \in Req :
        (req[r].op = "fishing" /\ req[r].table = Shipped)
        => /\ req[r].rand = Dbl(0, 0) => req[r].catch = "Trash"
           /\ \A i \in 1..8 :
                 /\ req[r].rand = C24_Sums[i]
                      => i < 8 /\ req[r].catch = Rarities[i + 1]
                 /\ req[r].rand = Dbl(C24_Sums[i].k, C24_Sums[i].u - 1)
                      => req[r].catch = Rarities[i]
           /\ \A i \in 1..8 :
                 RARITY_PROBABILITIES[i].prob > 0
                 => \E rand \in DrawSamples(Shipped) :
                       fishing_with(Shipped, CATCHES, rand) = {Rarities[i]}

\* the draw 0.489, the running sum of Common, selected Uncommon
C24_Witness ==
    \E r \in Req :
        /\ req[r].op = "fishing" /\ pc[r] = "done" /\ req[r].table = Shipped
        /\ req[r].rand = Dbl(489, 0) /\ req[r].catch = "Uncommon"
(***************************************************************************)
(* C23.  No operation blocks: under fair scheduling, with requests         *)
(* overlapping in every order, every request that has started ends; its    *)
(* handler returns after the response, or raises.                          *)
(***************************************************************************)
C23_Completes ==
    \A r \in 1..MaxConc : (pc[r] # "idle") ~> (pc[r] \in {"done", "raised"})

\* a /fish and a /delete-all-fishers overlapped and both have ended
C23_Witness ==
    /\ \A r \in 1..MaxConc : pc[r] = "done"
    /\ \E r, q \in 1..MaxConc :
          /\ req[r].op = "fish" /\ req[q].op = "delete-all-fishers"
          /\ req[r].player.money > 0
(***************************************************************************)
(* C25.  A successful reset_fisher of player p changes nothing but the     *)
(* field reset in p's record (and, for a reset of the level, p's league):  *)
(* p's other field, the records of the other players and the order of the  *)
(* records are as they were.                                               *)
(***************************************************************************)
C25_ResetFrame ==
    [][\A r \in Req :
          ( /\ Body(r) /\ req'[r].op = "reset-fisher"
            /\ req'[r].result = "True" )
          => /\ Readable(doc')
             /\ Len(doc'.STATS) = Len(doc.STATS)
             /\ \A i \in 1..Len(doc.STATS) :
                   /\ doc'.STATS[i].user_id = doc.STATS[i].user_id
                   /\ doc.STATS[i].user_id # req'[r].user_id
                        => doc'.STATS[i] = doc.STATS[i]
                   /\ ( /\ doc.STATS[i].user_id = req'[r].user_id
                        /\ Lower(req'[r].state) = "money" )
                        => /\ doc'.STATS[i].level = doc.STATS[i].level
                           /\ doc'.STATS[i].league = doc.STATS[i].league
                   /\ ( /\ doc.STATS[i].user_id = req'[r].user_id
                        /\ Lower(req'[r].state) # "money" )
                        => doc'.STATS[i].money = doc.STATS[i].money]_vars

\* the money of player 1 was reset in a ledger that also holds player 2: the
\* level of player 1 and the record of player 2 are still there
C25_Witness ==
    \E r \in Req :
        /\ req[r].op = "reset-fisher" /\ req[r].result = "True"
        /\ Lower(req[r].state) = "money" /\ req[r].user_id = 1
        /\ Readable(doc) /\ Len(doc.STATS) = 2
        /\ Persisted(doc, 1).money = 0 /\ Persisted(doc, 1).level > 0
        /\ Persisted(doc, 2).money > 0
(***************************************************************************)
(* C26.  When players.json does not exist, a /fish of player p that caught *)
(* a loot creates it, and the ledger it leaves holds exactly one record:   *)
(* that of p, with the money and the level the catch credited and the      *)
(* league of that level.                                                   *)
(***************************************************************************)
C26_LazyCreation ==
    [][\A r \in Req :
          ( /\ Starts(r) /\ req'[r].op = "fish" /\ IsRarity(req'[r].catch)
            /\ ~doc.exists )
          => /\ pc'[r] = "await"
             /\ Readable(doc')
             /\ doc'.STATS = << [user_id |-> req'[r].user_id,
                                 money |-> req'[r].catch_value,
                                 level |-> req'[r].catch_xp,
                                 league |-> C15_Rank(req'[r].catch_xp)] >>]_vars

\* the bot started without players.json and the /fish of player 2, a
\* Legendary catch, left a ledger of one record
C26_Witness ==
    \E r \in Req :
        /\ ~boot.exists /\ \A q \in Req : q # r => pc[q] = "idle"
        /\ req[r].op = "fish" /\ req[r].user_id = 2 /\ req[r].catch = "Legendary"
        /\ Readable(doc) /\ Len(doc.STATS) = 1
        /\ doc.STATS[1].user_id = 2 /\ doc.STATS[1].money > 0 /\ doc.STATS[1].level > 0
(***************************************************************************)
(* C27.  When reset_fisher, delete_player or delete_all_players returns    *)
(* None (no such player, unknown state, no file or no JSON in it),         *)
(* players.json is what it was before the call: nothing of the change is   *)
(* written.                                                                *)
(***************************************************************************)
C27_FailureWritesNothing ==
    [][\A r \in Req :
          ( /\ Body(r)
            /\ req'[r].op \in {"reset-fisher", "delete-fisher", "delete-all-fishers"}
            /\ req'[r].result = None )
          => doc' = doc]_vars

\* a reset of an unknown state and a delete of an absent player both failed,
\* and the ledger still holds the record of player 1 as the bot found it
C27_Witness ==
    \E r, q \in Req :
        /\ req[r].op = "reset-fisher" /\ req[r].result = None /\ req[r].user_id = 1
        /\ req[q].op = "delete-fisher" /\ req[q].result = None /\ req[q].user_id = 2
        /\ Present(doc, 1) /\ ~Present(doc, 2) /\ doc = boot
RECURSIVE C29_InTurn(_)
C29_InTurn(n) == IF n = 0 THEN boot ELSE Alone(n, C29_InTurn(n - 1))

C29_Cooperative ==
    /\ \A a, b \in Req : a # b => ~(InSection(a) /\ InSection(b))
    /\ doc = C29_InTurn(Cardinality(Arrived))
    /\ \A p \in Users :
          ( /\ Arrived # {} /\ Readable(boot)
            /\ \A r \in Arrived : req[r].op = "fish" /\ req[r].user_id = p )
          => /\ Present(doc, p)
             /\ Persisted(doc, p).money = Persisted(boot, p).money + SumValue(Arrived)
             /\ Persisted(doc, p).level = Persisted(boot, p).level + SumXp(Arrived)

\* two /fish of player 1, who had a record, overlap (both await their
\* response) and the ledger holds what the player had plus both credits
C29_Witness ==
    /\ Present(boot, 1) /\ Persisted(boot, 1).money > 0
    /\ Arrived = {1, 2}
    /\ \A r \in Arrived :
          /\ pc[r] = "await" /\ req[r].op = "fish" /\ req[r].user_id = 1
          /\ req[r].catch_value > 0
    /\ Persisted(doc, 1).money = Persisted(boot, 1).money + SumValue(Arrived)
(***************************************************************************)
(* C30.  The level /fish adds is the roll of value_loot_algo, at least 1   *)
(* for every rarity, Trash included: the record a /fish writes has a level *)
(* of at least 1 and a league other than Unranked, and a record of         *)
(* players.json has level 0 or league Unranked only after a reset_fisher   *)
(* of that player's level.                                                 *)
(***************************************************************************)
C30_CatchRanks ==
    /\ \A r \in Req :
          (req[r].op = "fish" /\ pc[r] \in {"await", "done"})
          => /\ IsRarity(req[r].catch)
             /\ C21_Table[req[r].catch][1] <= req[r].catch_xp
             /\ req[r].catch_xp <= C21_Table[req[r].catch][2]
             /\ req[r].catch_xp >= 1
             /\ req[r].player.level >= 1
             /\ req[r].player.league # "Unranked"
    /\ Readable(doc)
         => \A i \in 1..Len(doc.STATS) :
               (doc.STATS[i].level < 1 \/ doc.STATS[i].league = "Unranked")
               => \E r \in Req :
                     /\ req[r].op = "reset-fisher" /\ req[r].result = "True"
                     /\ req[r].user_id = doc.STATS[i].user_id
                     /\ Lower(req[r].state) \in {"level", "levels"}

\* a Trash catch with the least value roll gave a new player level 1 and the
\* league Minnow
C30_Witness ==
    \E r \in Req :
        /\ req[r].op = "fish" /\ pc[r] = "done" /\ req[r].catch = "Trash"
        /\ req[r].catch_xp = 1
        /\ Present(doc, req[r].user_id)
        /\ Persisted(doc, req[r].user_id).level = 1
        /\ Persisted(doc, req[r].user_id).league = "Minnow"

====
